---- MODULE Spec2Model ----
(***************************************************************************)
(* Model of the block BVH of valence_layer (crates/valence_layer/src/bvh.rs *)
(* and bvh/block.rs): the Bvh container with its node arena and value      *)
(* arena, BlockAabb, the recursive builder build_rec with its in-place     *)
(* partition, the pruning query, and shrink_to_fit.                        *)
(*                                                                         *)
(* Indices into the arenas are 0-based as in the source; a Vec is a        *)
(* sequence, so element i of a Vec v is v[i + 1].                          *)
(***************************************************************************)
EXTENDS Integers, Sequences, FiniteSets, TLC

(***************************************************************************)
(* Bounds of the model.                                                    *)
(***************************************************************************)
\* Largest number of items the caller supplies to build over one run.
MaxItems == 3
\* x coordinates of the generated items range over -1 .. MaxX.
MaxX == 0
\* Largest number of events sent over one run of the event queue.
MaxEvents == 3
\* Largest number of calls of update over one run of the event queue.
MaxUpdates == 3
\* Largest number of events in one send_batch.
MaxBatch == 2
\* Largest number of boss bar components changed between two runs of the
\* boss bar systems.
MaxChanged == 1
\* x coordinates of the boxes the BlockAabb operations are applied to range
\* over -1 .. MaxBoxX.
MaxBoxX == 0

(***************************************************************************)
(* BlockPos and BlockAabb.                                                 *)
(***************************************************************************)
BlockPos(px, py, pz) == [x |-> px, y |-> py, z |-> pz]

BlockAabb(lo, hi) == [min |-> lo, max |-> hi]

\* i32::MAX and i32::MIN: the coordinates of a BlockPos are i32.
I32Max == 2147483647

I32Min == (-I32Max) - 1

\* Whether a + b leaves the i32 range.
add_overflows(a, b) == IF b >= 0 THEN a > I32Max - b ELSE a < I32Min - b

\* Whether a - b leaves the i32 range.
sub_overflows(a, b) == IF b >= 0 THEN a < I32Min + b ELSE a > I32Max + b

\* a + b modulo 2^32 in two's complement; no intermediate value leaves the
\* i32 range.
wrapping_add(a, b) ==
    IF ~add_overflows(a, b) THEN a + b
    ELSE IF b >= 0 THEN (a + I32Min) + (b + I32Min)
    ELSE ((a + I32Max) + 1) + ((b + I32Max) + 1)

\* a - b modulo 2^32 in two's complement.
wrapping_sub(a, b) ==
    IF ~sub_overflows(a, b) THEN a - b
    ELSE IF b >= 0 THEN ((a + I32Max) + 1) + ((I32Max - b) + 1)
    ELSE (a + I32Min) + (I32Min - b)

length_x(b) == wrapping_sub(b.max.x, b.min.x)

length_y(b) == wrapping_sub(b.max.y, b.min.y)

length_z(b) == wrapping_sub(b.max.z, b.min.z)

point(pos) == BlockAabb(pos, pos)

\* The sum of the three side lengths, before it is doubled.
SideSum(b) == wrapping_add(wrapping_add(length_x(b), length_y(b)), length_z(b))

surface_area(b) ==
    LET sum == SideSum(b)
    IN  wrapping_add(sum, sum)

\* Whether an operation of surface_area leaves the i32 range: with overflow
\* checks the build panics there, without them the value wraps.
surface_area_overflows(b) ==
    \/ sub_overflows(b.max.x, b.min.x)
    \/ sub_overflows(b.max.y, b.min.y)
    \/ sub_overflows(b.max.z, b.min.z)
    \/ add_overflows(length_x(b), length_y(b))
    \/ add_overflows(wrapping_add(length_x(b), length_y(b)), length_z(b))
    \/ add_overflows(SideSum(b), SideSum(b))

Min2(a, b) == IF a <= b THEN a ELSE b

Max2(a, b) == IF a >= b THEN a ELSE b

\* A union that keeps the minimum corner of its receiver.
union_keeps_min(a, b) ==
    BlockAabb(a.min,
              BlockPos(Max2(a.max.x, b.max.x), Max2(a.max.y, b.max.y), Max2(a.max.z, b.max.z)))

union(a, b) ==
    BlockAabb(BlockPos(Min2(a.min.x, b.min.x), Min2(a.min.y, b.min.y), Min2(a.min.z, b.min.z)),
              BlockPos(Max2(a.max.x, b.max.x), Max2(a.max.y, b.max.y), Max2(a.max.z, b.max.z)))

intersects(a, b) ==
    /\ a.min.x <= b.max.x
    /\ a.max.x >= b.min.x
    /\ a.min.y <= b.max.y
    /\ a.max.y >= b.min.y
    /\ a.min.z <= b.max.z
    /\ a.max.z >= b.min.z

\* GetBlockPos for BlockPos: the item is its own position.
block_pos(v) == v

(***************************************************************************)
(* Option<BlockAabb>: None is the empty sequence, Some(b) is <<b>>.        *)
(***************************************************************************)
None == << >>

Some(b) == << b >>

\* The slice s[from .. to) of a Vec, 0-based and half-open.
Slice(s, from, to) == [i \in 1..(to - from) |-> s[from + i]]

\* A value_bounds that forgets the reduce and boxes the first value alone.
value_bounds_first_only(vals) ==
    IF Len(vals) = 0 THEN None ELSE Some(point(block_pos(vals[1])))

\* values.iter().map(point).reduce(union)
RECURSIVE value_bounds(_)
value_bounds(vals) ==
    IF Len(vals) = 0 THEN None
    ELSE IF Len(vals) = 1 THEN Some(point(block_pos(vals[1])))
    ELSE LET front == value_bounds(Slice(vals, 0, Len(vals) - 1))
         IN  Some(union(front[1], point(block_pos(vals[Len(vals)]))))

\* Integer division by b > 0 that truncates toward zero, as / of Rust does:
\* the quotient rounded down, plus one when a is negative and not a multiple.
TruncDiv(a, b) == IF a >= 0 \/ a % b = 0 THEN a \div b ELSE (a \div b) + 1

(***************************************************************************)
(* middle.  An i64 is kept as two limbs, value = hi * Limb + lo with        *)
(* 0 <= lo < Limb = 2^30, so that no intermediate value of the model       *)
(* leaves the 32-bit range while the code's i64 sum is computed exactly.   *)
(***************************************************************************)
Limb == (I32Max \div 2) + 1

I64(hi, lo) == [hi |-> hi, lo |-> lo]

\* x as i64
as_i64(x) == I64(x \div Limb, x % Limb)

\* a + b in i64
i64_add(a, b) ==
    LET lo == a.lo + b.lo
    IN  I64(a.hi + b.hi + (lo \div Limb), lo % Limb)

\* a / 2 in i64: the quotient rounded down, plus one when a is negative and odd.
i64_div2(a) ==
    LET down == I64(a.hi \div 2, ((a.hi % 2) * Limb + a.lo) \div 2)
    IN  IF a.hi < 0 /\ a.lo % 2 = 1 THEN i64_add(down, I64(0, 1)) ELSE down

\* Whether a + b leaves the i64 range, -2^63 .. 2^63 - 1: hi outside -2^33 .. 2^33 - 1.
i64_add_overflows(a, b) ==
    LET hi == a.hi + b.hi + ((a.lo + b.lo) \div Limb)
    IN  hi \div 8 < -Limb \/ hi \div 8 >= Limb

\* Whether an i64 is the value of some i32.
fits_i32(a) == -2 <= a.hi /\ a.hi <= 1

\* a as i32: the low 32 bits of a in two's complement.
as_i32(a) == (((a.hi + 2) % 4) - 2) * Limb + a.lo

\* The midpoint with the sum taken in i32.
middle_i32(lo, hi) == TruncDiv(wrapping_add(lo, hi), 2)

middle(lo, hi) == as_i32(i64_div2(i64_add(as_i64(lo), as_i64(hi))))

Range(s) == {s[i] : i \in DOMAIN s}

(***************************************************************************)
(* partition: the slice iterator `it` is the half-open window [i, j) of    *)
(* s; find consumes from the front, rfind from the back.  pred is given as *)
(* a function on the elements of s; seen lists, in order, the 0-based      *)
(* positions of s whose element pred has been called on.                   *)
(***************************************************************************)
\* it.find(|x| if pred(x) { true_count += 1; false } else { true })
RECURSIVE IterFind(_, _, _, _, _, _)
IterFind(s, pred, i, j, true_count, seen) ==
    IF i >= j THEN [head |-> -1, i |-> i, true_count |-> true_count, seen |-> seen]
    ELSE IF pred[s[i + 1]]
    THEN IterFind(s, pred, i + 1, j, true_count + 1, Append(seen, i))
    ELSE [head |-> i, i |-> i + 1, true_count |-> true_count, seen |-> Append(seen, i)]

\* it.rfind(|x| pred(x))
RECURSIVE IterRfind(_, _, _, _, _)
IterRfind(s, pred, i, j, seen) ==
    IF i >= j THEN [tail |-> -1, j |-> j, seen |-> seen]
    ELSE IF pred[s[j]] THEN [tail |-> j - 1, j |-> j - 1, seen |-> Append(seen, j - 1)]
    ELSE IterRfind(s, pred, i, j - 1, Append(seen, j - 1))

\* A swap that copies tail over head and leaves tail as it was.
Swap_overwrite(s, head, tail) == [s EXCEPT ![head + 1] = s[tail + 1]]

\* mem::swap(head, tail)
Swap(s, head, tail) == [s EXCEPT ![head + 1] = s[tail + 1], ![tail + 1] = s[head + 1]]

\* A loop that does not count the element it swaps to the front.
RECURSIVE PartitionLoop_uncounted(_, _, _, _, _, _)
PartitionLoop_uncounted(s, pred, i, j, true_count, seen) ==
    LET f == IterFind(s, pred, i, j, true_count, seen)
    IN  IF f.head = -1 THEN [s |-> s, point |-> f.true_count, seen |-> f.seen]
        ELSE LET r == IterRfind(s, pred, f.i, j, f.seen)
             IN  IF r.tail = -1 THEN [s |-> s, point |-> f.true_count, seen |-> r.seen]
                 ELSE PartitionLoop_uncounted(Swap(s, f.head, r.tail), pred, f.i, r.j,
                                              f.true_count, r.seen)

RECURSIVE PartitionLoop(_, _, _, _, _, _)
PartitionLoop(s, pred, i, j, true_count, seen) ==
    LET f == IterFind(s, pred, i, j, true_count, seen)
    IN  IF f.head = -1 THEN [s |-> s, point |-> f.true_count, seen |-> f.seen]
        ELSE LET r == IterRfind(s, pred, f.i, j, f.seen)
             IN  IF r.tail = -1 THEN [s |-> s, point |-> f.true_count, seen |-> r.seen]
                 ELSE PartitionLoop(Swap(s, f.head, r.tail), pred, f.i, r.j,
                                    f.true_count + 1, r.seen)

\* Returns the rearranged slice, the partition point and the positions pred
\* was called on.
partition(s, pred) == PartitionLoop(s, pred, 0, Len(s), 0, << >>)

(***************************************************************************)
(* Node: the two variants of the node arena.  left, right, start and end   *)
(* are 0-based arena indices.                                              *)
(***************************************************************************)
\* An Internal node with its two child indices exchanged.
Internal_swapped(bounds, left, right) ==
    [kind |-> "Internal", bounds |-> bounds, left |-> right, right |-> left]

\* A Leaf whose range starts at the start of the arena.
Leaf_from_zero(bounds, start, end) ==
    [kind |-> "Leaf", bounds |-> bounds, start |-> 0, end |-> end]

Internal(bounds, left, right) ==
    [kind |-> "Internal", bounds |-> bounds, left |-> left, right |-> right]

Leaf(bounds, start, end) ==
    [kind |-> "Leaf", bounds |-> bounds, start |-> start, end |-> end]

(***************************************************************************)
(* The state.                                                              *)
(***************************************************************************)
VARIABLES
    MAX_SURFACE_AREA,   \* the const generic parameter of the index type
    phase,              \* "none": not constructed; "ready"; "panicked"
    panic,              \* the message of the panic that ended the run, or ""
    nodes,              \* Bvh::nodes
    values,             \* Bvh::values
    items,              \* the batch handed to the most recent build
    splits,             \* the splits the most recent build performed, in order
    supplied,           \* number of items handed to build so far
    call                \* the most recent call, its region and what the callback received

vars == <<MAX_SURFACE_AREA, phase, panic, nodes, values, items, splits, supplied, call>>

(***************************************************************************)
(* The state of the BlockAabb operations applied on their own: three boxes *)
(* and the outcome of the operation applied to them last.                  *)
(***************************************************************************)
VARIABLES
    aabb_a,             \* the first box
    aabb_b,             \* the second box
    aabb_c,             \* the third box
    overflow_checks,    \* whether the build panics on integer overflow
    aabb_call           \* the operation applied last and what it returned

aabbVars == <<aabb_a, aabb_b, aabb_c, overflow_checks, aabb_call>>

NoAabbCall == [op |-> "none"]

\* No BlockAabb operation is being applied on its own.
AabbIdle ==
    /\ aabb_a = point(BlockPos(0, 0, 0))
    /\ aabb_b = point(BlockPos(0, 0, 0))
    /\ aabb_c = point(BlockPos(0, 0, 0))
    /\ overflow_checks = FALSE
    /\ aabb_call = NoAabbCall

(***************************************************************************)
(* The state of the event queue of valence_event (state_event.rs): an      *)
(* EventsWithState with its two buffers, and the readers of it.  An event  *)
(* instance is kept as its id and its event; the state attached to it      *)
(* plays no part in storing or reading.                                    *)
(***************************************************************************)
VARIABLES
    events_a,           \* EventsWithState::events_a
    events_b,           \* EventsWithState::events_b
    event_count,        \* EventsWithState::event_count
    reader,             \* a reader: its last_event_count and what it has been yielded
    ev_panic,           \* the message of the failed assertion, or ""
    ev_updates,         \* number of calls of update so far
    ev_sent,            \* every event sent so far, with the number of updates before it
    ev_removed,         \* "never" cleared or drained, "emptied" by it, or "refilled" since
    ev_call             \* the most recent call and what it returned

evVars == <<events_a, events_b, event_count, reader, ev_panic, ev_updates, ev_sent,
            ev_removed, ev_call>>

\* EventWithStateSequence::default()
EventWithStateSequenceDefault == [events |-> << >>, start_event_count |-> 0]

\* A reader with the bookkeeping the properties are stated with: what made
\* it (ManualEventWithStateReader::default(), get_reader or
\* get_reader_current), the ids it was yielded, event_count when it was made, whether it has
\* iterated at all, whether update was called since it was made, whether it
\* iterated fully since the last update, and whether two consecutive updates
\* went by without a full iteration between them.
Reader(made_by, count, born_at) ==
    [made |-> made_by, last_event_count |-> count, yielded |-> << >>, born |-> born_at,
     fresh |-> TRUE, had_update |-> FALSE, read_since_update |-> FALSE, lapsed |-> FALSE]

NoEvCall == [op |-> "none", full |-> FALSE, out |-> << >>, stored |-> << >>]

\* EventsWithState::default() and the default reader a system keeps from the
\* start.  Readers do not act on the queue or on each other, so one reader
\* is followed at a time.
EventsInit ==
    /\ events_a = EventWithStateSequenceDefault
    /\ events_b = EventWithStateSequenceDefault
    /\ event_count = 0
    /\ reader = Reader("default", 0, 0)
    /\ ev_panic = ""
    /\ ev_updates = 0
    /\ ev_sent = << >>
    /\ ev_removed = "never"
    /\ ev_call = NoEvCall

(***************************************************************************)
(* The state of the boss bars of valence_boss_bar: the boss bar entities   *)
(* with their BossBarViewers, the client entities, and the packets the     *)
(* systems BossBarPlugin adds to PostUpdate wrote when they ran last.      *)
(***************************************************************************)
VARIABLES
    boss_bars,          \* bar |-> its BossBarViewers and whether it has an EntityLayerId
    bb_despawned,       \* the entities that carry the Despawned marker
    bb_added,           \* the entities that got the marker since the systems ran last
    bb_changed,         \* the <<bar, component>> changed since the systems ran last
    client_packets,     \* the packets the systems wrote to clients, until flushed
    layer_packets,      \* the packets the systems wrote to the entity layer, until flushed
    bb_call             \* the most recent step, and the boss bars before it

bbVars == <<boss_bars, bb_despawned, bb_added, bb_changed, client_packets, layer_packets,
            bb_call>>

ClientIds == {"client1", "client2"}

BarIds == {"bar1", "bar2"}

\* BossBarViewers::default()
BossBarViewersDefault == [viewers |-> {}, old_viewers |-> {}]

NoBbCall == [op |-> "none", before |-> << >>]

\* The boss bars as spawned from BossBarBundle, each with or without an
\* EntityLayerId, and clients that view none of them yet.
BossBarInit ==
    /\ boss_bars \in [BarIds -> {[viewers |-> BossBarViewersDefault, layer |-> l] : l \in BOOLEAN}]
    /\ bb_despawned = {}
    /\ bb_added = {}
    /\ bb_changed = {}
    /\ client_packets = {}
    /\ layer_packets = {}
    /\ bb_call = NoBbCall

\* No boss bar is in use.
BossBarIdle ==
    /\ boss_bars = [b \in BarIds |-> [viewers |-> BossBarViewersDefault, layer |-> FALSE]]
    /\ bb_despawned = {}
    /\ bb_added = {}
    /\ bb_changed = {}
    /\ client_packets = {}
    /\ layer_packets = {}
    /\ bb_call = NoBbCall

(***************************************************************************)
(* partition applied on its own: the slice arr it is applied to, the       *)
(* closure it is handed, and the record of the most recent call.           *)
(***************************************************************************)
VARIABLES arr, arr_pred, part_call

partVars == <<arr, arr_pred, part_call>>

\* The closure |&x| mid >= x of the test, and |v| v >= mid of build_rec.
Closure(rel, mid) == [rel |-> rel, mid |-> mid]

NoPartCall == [op |-> "none"]

\* partition is not being applied on its own.
PartIdle ==
    /\ arr = << >>
    /\ arr_pred = Closure("mid >= x", 0)
    /\ part_call = NoPartCall

\* The variables a step of the index leaves alone.
aroundBvh == <<aabbVars, evVars, bbVars, partVars>>

allVars == <<vars, aabbVars, evVars, bbVars, partVars>>

NoPanic == ""

\* A clear that leaves the elements in place.
Vec_clear_keeps(v) == v

\* Vec::clear
Vec_clear(v) == << >>

\* Vec::extend
Vec_extend(v, more) == v \o more

\* Vec::push
Vec_push(v, e) == Append(v, e)

\* Writes the slice s back over v[from .. from + Len(s)).
WriteSlice(v, from, s) ==
    [i \in DOMAIN v |-> IF i > from /\ i <= from + Len(s) THEN s[i - from] ELSE v[i]]

\* The coordinate of a position on an axis.
Coord(pos, axis) == IF axis = "x" THEN pos.x ELSE IF axis = "z" THEN pos.z ELSE pos.y

\* A choice of axis that prefers y to z when x is not the longest.
SplitPlane_y_first(bounds) ==
    IF length_x(bounds) >= length_y(bounds) /\ length_x(bounds) >= length_z(bounds)
    THEN [axis |-> "x", mid |-> middle(bounds.min.x, bounds.max.x)]
    ELSE IF length_y(bounds) >= length_z(bounds)
    THEN [axis |-> "y", mid |-> middle(bounds.min.y, bounds.max.y)]
    ELSE [axis |-> "z", mid |-> middle(bounds.min.z, bounds.max.z)]

\* The axis build_rec splits on and the midpoint it splits at.
SplitPlane(bounds) ==
    IF length_x(bounds) >= length_y(bounds) /\ length_x(bounds) >= length_z(bounds)
    THEN [axis |-> "x", mid |-> middle(bounds.min.x, bounds.max.x)]
    ELSE IF length_z(bounds) >= length_y(bounds)
    THEN [axis |-> "z", mid |-> middle(bounds.min.z, bounds.max.z)]
    ELSE [axis |-> "y", mid |-> middle(bounds.min.y, bounds.max.y)]

\* A closure that sends the items below the midpoint to the front.
SplitPred_below(vals, plane) ==
    [v \in Range(vals) |-> Coord(block_pos(v), plane.axis) < plane.mid]

\* The closure handed to partition: |v| v.block_pos().<axis> >= mid
SplitPred(vals, plane) ==
    [v \in Range(vals) |-> Coord(block_pos(v), plane.axis) >= plane.mid]

\* A threshold test that every box passes.
IsLeafSized_always(bounds) == surface_area(bounds) <= surface_area(bounds)

\* A threshold test with < for <=.
IsLeafSized_strict(bounds) == surface_area(bounds) < MAX_SURFACE_AREA

\* The threshold test that ends the recursion with a leaf.
IsLeafSized(bounds) == surface_area(bounds) <= MAX_SURFACE_AREA

(***************************************************************************)
(* build_rec.  self is [nodes, values, panic, splits]; an `expect` that    *)
(* fails sets panic, and a call that finds panic set returns at once.      *)
(***************************************************************************)
RECURSIVE build_rec(_, _, _, _)
build_rec(self, bounds, start, end) ==
    IF IsLeafSized(bounds)
    THEN [self EXCEPT !.nodes = Vec_push(@, Leaf(bounds, start, end))]
    ELSE
      LET plane == SplitPlane(bounds)
          part  == partition(Slice(self.values, start, end),
                             SplitPred(Slice(self.values, start, end), plane))
          vals1 == WriteSlice(self.values, start, part.s)
          left_start  == start
          left_end    == start + part.point
          right_start == left_end
          right_end   == end
          left_bounds  == value_bounds(Slice(vals1, left_start, left_end))
          right_bounds == value_bounds(Slice(vals1, right_start, right_end))
          s1 == [self EXCEPT !.values = vals1,
                             !.splits = Append(@, [bounds |-> bounds, start |-> start,
                                                   end |-> end, axis |-> plane.axis,
                                                   mid |-> plane.mid,
                                                   point |-> part.point])]
      IN  IF left_bounds = None
          THEN [s1 EXCEPT !.panic = "left half should be nonempty"]
          ELSE IF right_bounds = None
          THEN [s1 EXCEPT !.panic = "right half should be nonempty"]
          ELSE
            LET s2 == build_rec(s1, left_bounds[1], left_start, left_end)
            IN  IF s2.panic # NoPanic THEN s2
                ELSE
                  LET left_idx == Len(s2.nodes) - 1
                      s3 == build_rec(s2, right_bounds[1], right_start, right_end)
                  IN  IF s3.panic # NoPanic THEN s3
                      ELSE
                        LET right_idx == Len(s3.nodes) - 1
                        IN  [s3 EXCEPT !.nodes =
                                 Vec_push(@, Internal(bounds, left_idx, right_idx))]

\* A build without self.nodes.clear().
build_keeps_nodes(old_nodes, old_values, batch) ==
    LET self == [nodes  |-> old_nodes,
                 values |-> Vec_extend(Vec_clear(old_values), batch),
                 panic  |-> NoPanic,
                 splits |-> << >>]
        bounds == value_bounds(self.values)
    IN  IF bounds # None
        THEN build_rec(self, bounds[1], 0, Len(self.values))
        ELSE self

\* build, from the arenas as the call finds them.
build(old_nodes, old_values, batch) ==
    LET self == [nodes  |-> Vec_clear(old_nodes),
                 values |-> Vec_extend(Vec_clear(old_values), batch),
                 panic  |-> NoPanic,
                 splits |-> << >>]
        bounds == value_bounds(self.values)
    IN  IF bounds # None
        THEN build_rec(self, bounds[1], 0, Len(self.values))
        ELSE self

(***************************************************************************)
(* query.  The result is the sequence of items the callback f received,    *)
(* in call order.  query_rec also tells which nodes it was called on       *)
(* (visited) and which positions of the value arena it tested against the  *)
(* view (examined), both in call order.                                    *)
(***************************************************************************)
\* The scan of one leaf: f(val) for every val of the range that view intersects.
RECURSIVE LeafScan(_, _, _, _)
LeafScan(vals, start, end, view) ==
    IF start >= end THEN << >>
    ELSE (IF intersects(view, point(block_pos(vals[start + 1])))
          THEN << vals[start + 1] >> ELSE << >>)
         \o LeafScan(vals, start + 1, end, view)

\* What a call of query_rec on node did when it went no further than node.
Pruned(node) == [reported |-> << >>, visited |-> << node >>, examined |-> << >>]

\* A query_rec that descends and scans without testing the bounds of the node.
RECURSIVE query_rec_unpruned(_, _, _, _, _)
query_rec_unpruned(ns, vals, node, view, view_aabb) ==
    IF node.kind = "Internal"
    THEN LET l == query_rec_unpruned(ns, vals, ns[node.left + 1], view, view_aabb)
             r == query_rec_unpruned(ns, vals, ns[node.right + 1], view, view_aabb)
         IN  [reported |-> l.reported \o r.reported,
              visited  |-> << node >> \o l.visited \o r.visited,
              examined |-> l.examined \o r.examined]
    ELSE [reported |-> LeafScan(vals, node.start, node.end, view),
          visited  |-> << node >>,
          examined |-> [i \in 1..(node.end - node.start) |-> node.start + i - 1]]

RECURSIVE query_rec(_, _, _, _, _)
query_rec(ns, vals, node, view, view_aabb) ==
    IF node.kind = "Internal"
    THEN IF intersects(node.bounds, view_aabb)
         THEN LET l == query_rec(ns, vals, ns[node.left + 1], view, view_aabb)
                  r == query_rec(ns, vals, ns[node.right + 1], view, view_aabb)
              IN  [reported |-> l.reported \o r.reported,
                   visited  |-> << node >> \o l.visited \o r.visited,
                   examined |-> l.examined \o r.examined]
         ELSE Pruned(node)
    ELSE IF intersects(node.bounds, view_aabb)
         THEN [reported |-> LeafScan(vals, node.start, node.end, view),
               visited  |-> << node >>,
               examined |-> [i \in 1..(node.end - node.start) |-> node.start + i - 1]]
         ELSE Pruned(node)

\* A query that takes the first node of the arena for the root.
query_from_first(ns, vals, view) ==
    IF Len(ns) > 0
    THEN query_rec(ns, vals, ns[1], view, view).reported
    ELSE << >>

\* query, with what query_rec visited and examined on the way.
query_trace(ns, vals, view) ==
    IF Len(ns) > 0
    THEN query_rec(ns, vals, ns[Len(ns)], view, view)
    ELSE [reported |-> << >>, visited |-> << >>, examined |-> << >>]

query(ns, vals, view) == query_trace(ns, vals, view).reported

\* A shrink_to_fit that releases the elements with the capacity.
Vec_shrink_to_fit_clearing(v) == << >>

\* shrink_to_fit of a Vec releases capacity and keeps the elements.  Capacity
\* is not part of the state: no operation of the index reads it.
Vec_shrink_to_fit(v) == v

\* A constructor without the assertion.
AssertThreshold_none(msa) == TRUE

\* The assertion of Bvh::new.
AssertThreshold(msa) == msa > 0

(***************************************************************************)
(* Inputs.                                                                 *)
(***************************************************************************)
\* BlockBvh's default for MAX_SURFACE_AREA.
BlockBvhDefault == 1

\* The values the const generic parameter is instantiated with.
Thresholds == {-1, 0, BlockBvhDefault, 2, 4}

\* The positions items are drawn from: x in -1 .. MaxX, and (y, z) one of the
\* origin column, its neighbour below on y and its neighbour above on z.
Points ==
    {BlockPos(px, yz[1], yz[2]) : px \in -1..MaxX, yz \in {<<0, 0>>, <<-1, 0>>, <<0, 1>>}}

\* The sequences over S of length exactly n.
RECURSIVE SeqsOfLen(_, _)
SeqsOfLen(S, n) ==
    IF n = 0 THEN {<< >>}
    ELSE {Append(q, e) : q \in SeqsOfLen(S, n - 1), e \in S}

BatchesOfLen == [n \in 0..MaxItems |-> SeqsOfLen(Points, n)]

\* The batches of at most n items.
BatchesUpTo(n) == UNION {BatchesOfLen[k] : k \in 0..n}

Batches == BatchesUpTo(MaxItems)

\* The regions queried: every box from a corner of ViewMins to a corner of ViewMaxs.
ViewMins == {BlockPos(-1, -1, 0), BlockPos(0, 0, 0)}

ViewMaxs == {BlockPos(0, 0, 0), BlockPos(0, 0, 1)}

Views == {BlockAabb(c[1], c[2]) : c \in ViewMins \X ViewMaxs}

NoCall == [op |-> "none", view |-> None, reported |-> << >>]

(***************************************************************************)
(* Actions.                                                                *)
(***************************************************************************)
Init ==
    /\ MAX_SURFACE_AREA \in Thresholds
    /\ phase = "none"
    /\ panic = NoPanic
    /\ nodes = << >>
    /\ values = << >>
    /\ items = << >>
    /\ splits = << >>
    /\ supplied = 0
    /\ call = NoCall
    /\ AabbIdle
    /\ EventsInit
    /\ BossBarIdle
    /\ PartIdle

\* The body of Bvh::new, on behalf of the constructor `by`.
Construct(by) ==
    /\ phase = "none"
    /\ IF AssertThreshold(MAX_SURFACE_AREA)
       THEN /\ phase' = "ready"
            /\ panic' = NoPanic
       ELSE /\ phase' = "panicked"
            /\ panic' = "assertion failed: MAX_SURFACE_AREA > 0"
    /\ nodes' = << >>
    /\ values' = << >>
    /\ call' = [op |-> by, view |-> None, reported |-> << >>]
    /\ UNCHANGED <<MAX_SURFACE_AREA, items, splits, supplied>>

New == Construct("new")

Default == Construct("default")

\* A panic that the caller catches and goes on after.
Unwind_caught(message) == "ready"

\* What a call leaves the index as: a panic unwinds out of the call, which
\* then does not return.
Unwind(message) == IF message = NoPanic THEN "ready" ELSE "panicked"

Build(batch) ==
    /\ phase = "ready"
    /\ \E self \in {build(nodes, values, batch)} :
           /\ nodes' = self.nodes
           /\ values' = self.values
           /\ splits' = self.splits
           /\ panic' = self.panic
           /\ phase' = Unwind(self.panic)
    /\ items' = batch
    /\ supplied' = supplied + Len(batch)
    /\ call' = [op |-> "build", view |-> None, reported |-> << >>]
    /\ UNCHANGED MAX_SURFACE_AREA

\* A query that takes the arenas with it.
Query_consuming(view) ==
    /\ phase = "ready"
    /\ \E trace \in {query_trace(nodes, values, view)} :
          call' = [op |-> "query", view |-> Some(view),
                   reported |-> query(nodes, values, view),
                   visited |-> trace.visited, examined |-> trace.examined]
    /\ nodes' = << >>
    /\ values' = << >>
    /\ UNCHANGED <<MAX_SURFACE_AREA, phase, panic, items, splits, supplied>>

Query(view) ==
    /\ phase = "ready"
    /\ \E trace \in {query_trace(nodes, values, view)} :
          call' = [op |-> "query", view |-> Some(view),
                   reported |-> query(nodes, values, view),
                   visited |-> trace.visited, examined |-> trace.examined]
    /\ UNCHANGED <<MAX_SURFACE_AREA, phase, panic, nodes, values, items, splits, supplied>>

ShrinkToFit ==
    /\ phase = "ready"
    /\ nodes' = Vec_shrink_to_fit(nodes)
    /\ values' = Vec_shrink_to_fit(values)
    /\ call' = [op |-> "shrink_to_fit", view |-> None, reported |-> << >>]
    /\ UNCHANGED <<MAX_SURFACE_AREA, phase, panic, items, splits, supplied>>

Next ==
    \/ New /\ UNCHANGED aroundBvh
    \/ Default /\ UNCHANGED aroundBvh
    \/ \E batch \in BatchesUpTo(MaxItems - supplied) : Build(batch) /\ UNCHANGED aroundBvh
    \/ \E view \in Views : Query(view) /\ UNCHANGED aroundBvh
    \/ ShrinkToFit /\ UNCHANGED aroundBvh

Spec == Init /\ [][Next]_allVars

(***************************************************************************)
(* The concrete scenario: the three items (0,0,0), (1,0,0), (10,10,10),    *)
(* every positive threshold below the extent of their common box, and the  *)
(* query box from (0,0,0) to (1,0,0).                                      *)
(***************************************************************************)
Scenario == << BlockPos(0, 0, 0), BlockPos(1, 0, 0), BlockPos(10, 10, 10) >>

ScenarioView == BlockAabb(BlockPos(0, 0, 0), BlockPos(1, 0, 0))

ScenarioExtent == surface_area(value_bounds(Scenario)[1])

ScenarioInit ==
    /\ MAX_SURFACE_AREA \in 1..(ScenarioExtent - 1)
    /\ phase = "none"
    /\ panic = NoPanic
    /\ nodes = << >>
    /\ values = << >>
    /\ items = << >>
    /\ splits = << >>
    /\ supplied = 0
    /\ call = NoCall
    /\ AabbIdle
    /\ EventsInit
    /\ BossBarIdle
    /\ PartIdle

\* The scenario is built at most twice.
ScenarioNext ==
    \/ New /\ UNCHANGED aroundBvh
    \/ Default /\ UNCHANGED aroundBvh
    \/ supplied < 2 * Len(Scenario) /\ Build(Scenario) /\ UNCHANGED aroundBvh
    \/ \E view \in Views \cup {ScenarioView} : Query(view) /\ UNCHANGED aroundBvh
    \/ ShrinkToFit /\ UNCHANGED aroundBvh

SpecScenario == ScenarioInit /\ [][ScenarioNext]_allVars

(***************************************************************************)
(* Definitions the properties are stated with.                             *)
(***************************************************************************)
\* The multiset of the elements of a sequence: element |-> number of occurrences.
BagOf(s) == [e \in Range(s) |-> Cardinality({i \in DOMAIN s : s[i] = e})]

\* The linear scan of the test: the items of batch whose point box view intersects.
RECURSIVE BruteForce(_, _)
BruteForce(batch, view) ==
    IF batch = << >> THEN << >>
    ELSE (IF intersects(view, point(block_pos(Head(batch)))) THEN << Head(batch) >> ELSE << >>)
         \o BruteForce(Tail(batch), view)

SetMin(S) == CHOOSE m \in S : \A e \in S : m <= e

SetMax(S) == CHOOSE m \in S : \A e \in S : m >= e

\* The smallest box around a non-empty set of positions.
BoxOf(ps) ==
    BlockAabb(BlockPos(SetMin({q.x : q \in ps}), SetMin({q.y : q \in ps}), SetMin({q.z : q \in ps})),
              BlockPos(SetMax({q.x : q \in ps}), SetMax({q.y : q \in ps}), SetMax({q.z : q \in ps})))

\* The index is usable and its most recent build returned.
Ready == phase = "ready"

\* The view of the most recent call, which is a query.
CallView == call.view[1]

(***************************************************************************)
(* check_invariants, the test-support routine: FALSE where an assertion    *)
(* or the expect of the source would fail.                                 *)
(***************************************************************************)
RECURSIVE check_invariants_rec(_, _, _)
check_invariants_rec(ns, vals, node) ==
    IF node.kind = "Internal"
    THEN /\ union(ns[node.left + 1].bounds, ns[node.right + 1].bounds) = node.bounds
         /\ check_invariants_rec(ns, vals, ns[node.left + 1])
         /\ check_invariants_rec(ns, vals, ns[node.right + 1])
    ELSE LET bounds == value_bounds(Slice(vals, node.start, node.end))
         IN  bounds # None /\ node.bounds = bounds[1]

check_invariants(ns, vals) ==
    IF Len(ns) > 0 THEN check_invariants_rec(ns, vals, ns[Len(ns)]) ELSE TRUE

\* The positions of the values in the range of a leaf.
LeafPositions(leaf) == {block_pos(values[i + 1]) : i \in leaf.start..(leaf.end - 1)}

\* A node of the arena has the bounds of what lies beneath it.
NodeBoundsOk(n) ==
    IF n.kind = "Internal"
    THEN n.bounds = union(nodes[n.left + 1].bounds, nodes[n.right + 1].bounds)
    ELSE n.start < n.end /\ n.bounds = BoxOf(LeafPositions(n))

(***************************************************************************)
(* C1.  After a build that returned, query(R) calls the callback exactly   *)
(* once for each item of the batch whose point box intersects R and for no *)
(* other item: the multiset reported equals that of a linear scan of the   *)
(* batch against R.                                                        *)
(***************************************************************************)
C1_QueryMatchesLinearScan ==
    (Ready /\ call.op = "query") =>
        BagOf(call.reported) = BagOf(BruteForce(items, CallView))

\* A query of a tree with internal nodes that reports one item twice and leaves
\* another item of the batch out.
C1_Witness ==
    /\ Ready
    /\ call.op = "query"
    /\ Len(nodes) >= 3
    /\ Len(call.reported) < Len(items)
    /\ Cardinality(Range(call.reported)) < Len(call.reported)

(***************************************************************************)
(* C2.  build is total for every positive threshold: it never panics, and  *)
(* in every split both halves of the partitioned range are non-empty.      *)
(***************************************************************************)
C2_BuildIsTotal ==
    MAX_SURFACE_AREA > 0 =>
        /\ panic = NoPanic
        /\ \A k \in DOMAIN splits :
               /\ 0 < splits[k].point
               /\ splits[k].point < splits[k].end - splits[k].start

(***************************************************************************)
(* C3.  After build of a non-empty batch has returned, every Internal      *)
(* node's bounds is the union of its two children's bounds, every Leaf has *)
(* a non-empty range and the bounds of the smallest box around the items   *)
(* of its range, and check_invariants passes.                              *)
(***************************************************************************)
C3_BoundsInvariant ==
    (Ready /\ items # << >>) =>
        /\ Len(nodes) > 0
        /\ \A k \in DOMAIN nodes : NodeBoundsOk(nodes[k])
        /\ check_invariants(nodes, values)

\* A built tree with an Internal node below the root.
C3_Witness ==
    /\ Ready
    /\ call.op = "build"
    /\ Len(nodes) >= 5
    /\ \E k \in 1..(Len(nodes) - 1) : nodes[k].kind = "Internal"

(***************************************************************************)
(* C4.  For the items (0,0,0), (1,0,0), (10,10,10) and every positive      *)
(* threshold below the extent of their common box, build returns and a     *)
(* query with the box from (0,0,0) to (1,0,0) reports exactly (0,0,0) and  *)
(* (1,0,0).                                                                *)
(***************************************************************************)
C4_ScenarioReportsFirstTwo ==
    /\ (call.op = "build" /\ items = Scenario) => Ready
    /\ (Ready /\ call.op = "query" /\ items = Scenario /\ CallView = ScenarioView) =>
           BagOf(call.reported) = BagOf(<< BlockPos(0, 0, 0), BlockPos(1, 0, 0) >>)

(***************************************************************************)
(* C5.  build of zero items leaves both arenas empty; on an index with an  *)
(* empty node arena every query reports nothing, and shrink_to_fit leaves  *)
(* the index empty.                                                        *)
(***************************************************************************)
C5_EmptyIndex ==
    /\ (call.op = "build" /\ items = << >>) => (Ready /\ nodes = << >> /\ values = << >>)
    /\ (Ready /\ call.op = "query" /\ nodes = << >>) => call.reported = << >>
    /\ (Ready /\ call.op = "shrink_to_fit" /\ items = << >>) =>
           (nodes = << >> /\ values = << >>)

\* A query of an index emptied by a build of zero items after a build of some.
C5_Witness ==
    /\ Ready
    /\ call.op = "query"
    /\ nodes = << >>
    /\ items = << >>
    /\ supplied > 0

(***************************************************************************)
(* C6.  build replaces the index: after a build of batch S2 that follows   *)
(* a build of other items, the arenas are those a fresh index has after    *)
(* build(S2) alone, and no query reports an item that is not in S2.        *)
(***************************************************************************)
C6_BuildReplaces ==
    (call.op = "build" /\ supplied > Len(items)) =>
        LET fresh == build(<< >>, << >>, items)
        IN  /\ nodes = fresh.nodes
            /\ values = fresh.values
            /\ Ready => \A view \in Views : Range(query(nodes, values, view)) \subseteq Range(items)

\* A rebuild that splits, after a build of other items.
C6_Witness ==
    /\ Ready
    /\ call.op = "build"
    /\ supplied > Len(items)
    /\ Len(nodes) >= 3

(***************************************************************************)
(* C7.  If the extent of the box around a non-empty batch equals the       *)
(* threshold, build produces exactly one node: a Leaf over the whole value *)
(* range.                                                                  *)
(***************************************************************************)
C7_ThresholdBoundary ==
    (Ready /\ items # << >>
           /\ surface_area(BoxOf({block_pos(v) : v \in Range(items)})) = MAX_SURFACE_AREA) =>
        nodes = << Leaf(BoxOf({block_pos(v) : v \in Range(items)}), 0, Len(items)) >>

\* A build of distinct items whose box has exactly the threshold for extent.
C7_Witness ==
    /\ Ready
    /\ call.op = "build"
    /\ Cardinality(Range(items)) >= 2
    /\ surface_area(BoxOf({block_pos(v) : v \in Range(items)})) = MAX_SURFACE_AREA

(***************************************************************************)
(* C8.  A query leaves both arenas as they were, and a second query with   *)
(* the same region would report what this one reported.                    *)
(***************************************************************************)
C8_QueryIsReadOnly ==
    [][call'.op = "query" =>
          /\ nodes' = nodes
          /\ values' = values
          /\ call'.reported = query(nodes', values', call'.view[1])]_vars

\* A query of a tree with internal nodes that reported every item of the batch.
C8_Witness ==
    /\ Ready
    /\ call.op = "query"
    /\ Len(nodes) >= 3
    /\ call.reported # << >>
    /\ Len(call.reported) = Len(items)

(***************************************************************************)
(* C9.  shrink_to_fit changes neither the nodes nor the values, and every  *)
(* query reports after it what it reported before it.                      *)
(***************************************************************************)
C9_ShrinkKeepsContents ==
    [][call'.op = "shrink_to_fit" =>
          /\ nodes' = nodes
          /\ values' = values
          /\ \A view \in Views : query(nodes', values', view) = query(nodes, values, view)]_vars

\* shrink_to_fit of an index that holds a tree with internal nodes.
C9_Witness ==
    /\ Ready
    /\ call.op = "shrink_to_fit"
    /\ Len(nodes) >= 3

(***************************************************************************)
(* C10.  No index with a threshold of zero or less exists: new and default *)
(* panic on it, and build, query and shrink_to_fit only run with a         *)
(* positive threshold.                                                     *)
(***************************************************************************)
C10_ThresholdPositive ==
    /\ Ready => MAX_SURFACE_AREA > 0
    /\ (call.op \in {"new", "default"} /\ MAX_SURFACE_AREA <= 0) => phase = "panicked"
    /\ call.op \in {"build", "query", "shrink_to_fit"} => MAX_SURFACE_AREA > 0

\* default() on a type with a negative threshold has panicked.
C10_Witness ==
    /\ phase = "panicked"
    /\ call.op = "default"
    /\ MAX_SURFACE_AREA < 0

(***************************************************************************)
(* The BlockAabb operations applied on their own to boxes drawn from a     *)
(* bounded set.  A BlockAabb is only ever made by point and union, so its  *)
(* min is at most its max on every axis.                                   *)
(***************************************************************************)
\* The index is not in use.
BvhIdle ==
    /\ MAX_SURFACE_AREA = BlockBvhDefault
    /\ phase = "none"
    /\ panic = NoPanic
    /\ nodes = << >>
    /\ values = << >>
    /\ items = << >>
    /\ splits = << >>
    /\ supplied = 0
    /\ call = NoCall

Intervals(S) == {iv \in S \X S : iv[1] <= iv[2]}

BoxesOver(xs, ys, zs) ==
    {BlockAabb(BlockPos(ix[1], iy[1], iz[1]), BlockPos(ix[2], iy[2], iz[2])) :
        ix \in Intervals(xs), iy \in Intervals(ys), iz \in Intervals(zs)}

\* Boxes with small coordinates.
SmallBoxes == BoxesOver(-1..MaxBoxX, 0..1, -1..0)

\* The small boxes that hold a single position.
SmallPointBoxes == {b \in SmallBoxes : b.min = b.max}

\* Boxes whose coordinates reach the ends of the i32 range.
I32Boxes == BoxesOver({I32Min, -1, 0, I32Max}, {0, I32Max}, {0})

\* What evaluating surface_area(b) does: with overflow checks an operation
\* that leaves the i32 range panics, without them its result wraps.
SurfaceAreaOutcome(b) ==
    [panic   |-> overflow_checks /\ surface_area_overflows(b),
     wrapped |-> ~overflow_checks /\ surface_area_overflows(b),
     value   |-> IF overflow_checks /\ surface_area_overflows(b) THEN 0 ELSE surface_area(b)]

AabbInit ==
    /\ aabb_a \in SmallBoxes
    /\ aabb_b \in SmallBoxes
    /\ aabb_c \in SmallPointBoxes
    /\ overflow_checks \in BOOLEAN
    /\ aabb_call = NoAabbCall
    /\ BvhIdle
    /\ EventsInit
    /\ BossBarIdle
    /\ PartIdle

AabbI32Init ==
    /\ aabb_a \in I32Boxes
    /\ aabb_b \in I32Boxes
    /\ aabb_c = aabb_a
    /\ overflow_checks \in BOOLEAN
    /\ aabb_call = NoAabbCall
    /\ BvhIdle
    /\ EventsInit
    /\ BossBarIdle
    /\ PartIdle

\* The variables a BlockAabb operation applied on its own leaves alone.
aroundAabb == <<vars, evVars, bbVars, partVars, aabb_a, aabb_b, aabb_c, overflow_checks>>

AabbUnion ==
    /\ aabb_call' = [op   |-> "union",
                     ab   |-> union(aabb_a, aabb_b),
                     ba   |-> union(aabb_b, aabb_a),
                     ab_c |-> union(union(aabb_a, aabb_b), aabb_c),
                     a_bc |-> union(aabb_a, union(aabb_b, aabb_c)),
                     aa   |-> union(aabb_a, aabb_a)]
    /\ UNCHANGED aroundAabb

AabbIntersects ==
    /\ aabb_call' = [op |-> "intersects",
                     ab |-> intersects(aabb_a, aabb_b),
                     ba |-> intersects(aabb_b, aabb_a)]
    /\ UNCHANGED aroundAabb

\* point applied to a corner of the first box, and the extent of the result.
AabbPoint ==
    /\ \E pos \in {aabb_a.min, aabb_a.max} :
          aabb_call' = [op     |-> "point",
                        pos    |-> pos,
                        box    |-> point(pos),
                        extent |-> SurfaceAreaOutcome(point(pos))]
    /\ UNCHANGED aroundAabb

AabbSurfaceArea ==
    /\ aabb_call' = [op |-> "surface_area",
                     a  |-> SurfaceAreaOutcome(aabb_a),
                     b  |-> SurfaceAreaOutcome(aabb_b),
                     ab |-> SurfaceAreaOutcome(union(aabb_a, aabb_b))]
    /\ UNCHANGED aroundAabb

AabbNext ==
    \/ AabbUnion
    \/ AabbIntersects
    \/ AabbPoint
    \/ AabbSurfaceArea

SpecAabb == AabbInit /\ [][AabbNext]_allVars

SpecAabbI32 == AabbI32Init /\ [][AabbNext]_allVars

(***************************************************************************)
(* C11.  Over boxes with bounded coordinates union is commutative,         *)
(* associative and idempotent, intersects is symmetric, and the box of a   *)
(* single point has extent 0.                                              *)
(***************************************************************************)
C11_AabbAlgebra ==
    /\ aabb_call.op = "union" =>
          /\ aabb_call.ab = aabb_call.ba
          /\ aabb_call.ab_c = aabb_call.a_bc
          /\ aabb_call.aa = aabb_a
    /\ aabb_call.op = "intersects" => aabb_call.ab = aabb_call.ba
    /\ aabb_call.op = "point" =>
          /\ ~aabb_call.extent.panic
          /\ ~aabb_call.extent.wrapped
          /\ aabb_call.extent.value = 0

\* union applied to two boxes neither of which contains the other, with a
\* third box outside their union.
C11_Witness ==
    /\ aabb_call.op = "union"
    /\ aabb_call.ab # aabb_a
    /\ aabb_call.ab # aabb_b
    /\ aabb_call.ab_c # aabb_call.ab
    /\ aabb_call.ab_c # aabb_c

(***************************************************************************)
(* C12.  For all boxes with i32 coordinates the extent of a union is at    *)
(* least the extent of each operand, and the side lengths and their        *)
(* doubled sum are computed in i32 without overflow or wrap-around.        *)
(***************************************************************************)
C12_ExtentMonotoneInI32 ==
    aabb_call.op = "surface_area" =>
        /\ ~aabb_call.a.panic /\ ~aabb_call.b.panic /\ ~aabb_call.ab.panic
        /\ ~aabb_call.a.wrapped /\ ~aabb_call.b.wrapped /\ ~aabb_call.ab.wrapped
        /\ aabb_call.ab.value >= aabb_call.a.value
        /\ aabb_call.ab.value >= aabb_call.b.value

(***************************************************************************)
(* EventsWithState (state_event.rs).  `self` is the record of its three    *)
(* fields; a method that takes &mut self returns the new record.           *)
(***************************************************************************)
EventsWithState(a, b, count) == [events_a |-> a, events_b |-> b, event_count |-> count]

\* usize::saturating_sub
saturating_sub(a, b) == IF a >= b THEN a - b ELSE 0

\* A send that numbers the event by the number of events stored.
send_numbered_by_len(self, event) ==
    LET event_id == Len(self.events_a.events) + Len(self.events_b.events)
        event_instance == [event_id |-> event_id, event |-> event]
    IN  [self EXCEPT !.events_b.events = Append(@, event_instance),
                     !.event_count = @ + 1]

\* EventsWithState::send
send(self, event) ==
    LET event_id == self.event_count
        event_instance == [event_id |-> event_id, event |-> event]
    IN  [self EXCEPT !.events_b.events = Append(@, event_instance),
                     !.event_count = @ + 1]

\* Extend::extend, which send_batch calls: the ids count up from event_count.
extend(self, events) ==
    LET instances == [i \in 1..Len(events) |->
                        [event_id |-> self.event_count + (i - 1), event |-> events[i]]]
    IN  [self EXCEPT !.events_b.events = @ \o instances,
                     !.event_count = @ + Len(events)]

\* An update that empties both buffers.
update_clears_both(self) ==
    EventsWithState([events |-> << >>, start_event_count |-> self.event_count],
                    [events |-> << >>, start_event_count |-> self.event_count],
                    self.event_count)

\* An update that swaps the buffers and does not clear the older one.
update_keeps_older(self) ==
    EventsWithState(self.events_b,
                    [events |-> self.events_a.events,
                     start_event_count |-> self.event_count],
                    self.event_count)

\* EventsWithState::update, up to its debug assertion.
update(self) ==
    EventsWithState(self.events_b,
                    [events |-> << >>, start_event_count |-> self.event_count],
                    self.event_count)

\* The debug assertion at the end of update.
update_assertion(self) ==
    self.events_a.start_event_count + Len(self.events_a.events)
        = self.events_b.start_event_count

\* A reset that moves the start of the older buffer only.
reset_start_event_count_older_only(self) ==
    [self EXCEPT !.events_a.start_event_count = self.event_count]

\* EventsWithState::reset_start_event_count
reset_start_event_count(self) ==
    [self EXCEPT !.events_a.start_event_count = self.event_count,
                 !.events_b.start_event_count = self.event_count]

\* A clear that empties the newer buffer only.
clear_newer_only(self) ==
    [reset_start_event_count(self) EXCEPT !.events_b.events = << >>]

\* EventsWithState::clear
clear(self) ==
    [reset_start_event_count(self) EXCEPT !.events_a.events = << >>,
                                          !.events_b.events = << >>]

\* EventsWithState::drain: the new record and the events the iterator yields.
\* Both Vec::drain(..) are made when drain is called, so both buffers end
\* empty whether or not the iterator is consumed.
drain(self) ==
    [self |-> [reset_start_event_count(self) EXCEPT !.events_a.events = << >>,
                                                    !.events_b.events = << >>],
     out  |-> [i \in 1..(Len(self.events_a.events) + Len(self.events_b.events)) |->
                 (self.events_a.events \o self.events_b.events)[i].event]]

\* EventsWithState::len
len(self) == Len(self.events_a.events) + Len(self.events_b.events)

\* EventsWithState::is_empty
is_empty(self) == len(self) = 0

\* EventsWithState::oldest_id
oldest_id(self) == self.events_a.start_event_count

\* A sequence that always answers with the newer buffer.
sequence_newer_only(self, id) == self.events_b

\* EventsWithState::sequence
sequence(self, id) ==
    IF id < self.events_b.start_event_count THEN self.events_a ELSE self.events_b

\* EventsWithState::get_event
get_event(self, id) ==
    IF id < oldest_id(self) THEN None
    ELSE LET seq == sequence(self, id)
             index == saturating_sub(id, seq.start_event_count)
         IN  IF index < Len(seq.events)
             THEN Some(<<seq.events[index + 1].event, seq.events[index + 1].event_id>>)
             ELSE None

\* EventsWithState::get_reader
get_reader(self) == 0

\* A get_reader_current that returns a default reader.
get_reader_current_from_start(self) == 0

\* EventsWithState::get_reader_current: the last_event_count of the reader.
get_reader_current(self) == self.event_count

(***************************************************************************)
(* ManualEventWithStateIterator: the reader's last_event_count and the     *)
(* chain of the unread parts of the two buffers.                           *)
(***************************************************************************)
\* slice.get_mut(index..).unwrap_or_default()
SliceFrom(v, index) == IF index <= Len(v) THEN SubSeq(v, index + 1, Len(v)) ELSE << >>

\* ManualEventWithStateIterator::new
IteratorNew(self, last_event_count) ==
    LET a_index == saturating_sub(last_event_count, self.events_a.start_event_count)
        b_index == saturating_sub(last_event_count, self.events_b.start_event_count)
        a == SliceFrom(self.events_a.events, a_index)
        b == SliceFrom(self.events_b.events, b_index)
        unread_count == Len(a) + Len(b)
    IN  [last_event_count |-> self.event_count - unread_count,
         chain |-> a \o b,
         unread |-> unread_count]

\* A next that does not advance the reader.
IteratorNext_forgetful(it) == [it EXCEPT !.chain = Tail(@), !.unread = @ - 1]

\* Iterator::next_with_id on a chain that is not exhausted: the item is
\* Head(it.chain), the reader advances by one.
IteratorNext(it) ==
    [it EXCEPT !.chain = Tail(@), !.last_event_count = @ + 1, !.unread = @ - 1]

\* k calls of next: the iterator afterwards and the items yielded.
RECURSIVE IteratorTake(_, _)
IteratorTake(it, k) ==
    IF k = 0 \/ it.chain = << >> THEN [it |-> it, out |-> << >>]
    ELSE LET rest == IteratorTake(IteratorNext(it), k - 1)
         IN  [it |-> rest.it, out |-> <<Head(it.chain)>> \o rest.out]

\* ManualEventWithStateReader::len
reader_len(self, last_event_count) ==
    Min2(saturating_sub(self.event_count, last_event_count), len(self))

\* ManualEventWithStateReader::missed_events
missed_events(self, last_event_count) ==
    saturating_sub(Min2(self.events_a.start_event_count, self.events_b.start_event_count),
                   last_event_count)

(***************************************************************************)
(* The actions of the event queue.                                         *)
(***************************************************************************)
\* The events a caller sends: the queue never looks into an event, so the
\* n-th event sent over a run (n from 0) is one that names n, which makes
\* the order of the events visible in what drain and the readers return.
NthEvent(n) == <<"event", n>>

\* The batch of the next n events the caller sends.
NextEvents(n) == [i \in 1..n |-> NthEvent(Len(ev_sent) + (i - 1))]

\* The EventsWithState of the current state.
Self == EventsWithState(events_a, events_b, event_count)

\* The variables a step of the event queue leaves alone.
aroundEvents == <<vars, aabbVars, bbVars, partVars>>

\* Stores the record a method returned.
Store(self) ==
    /\ events_a' = self.events_a
    /\ events_b' = self.events_b
    /\ event_count' = self.event_count

\* What sending does to ev_removed: a queue that had been emptied is refilled.
Refilled(n) == IF ev_removed = "emptied" /\ n > 0 THEN "refilled" ELSE ev_removed

EvCall(name, all, yielded, before) ==
    [op |-> name, full |-> all, out |-> yielded, stored |-> before]

Send(event) ==
    /\ ev_panic = ""
    /\ event_count < MaxEvents
    /\ Store(send(Self, event))
    /\ ev_sent' = Append(ev_sent, [event |-> event, epoch |-> ev_updates])
    /\ ev_removed' = Refilled(1)
    /\ ev_call' = EvCall("send", FALSE, << >>, << >>)
    /\ UNCHANGED <<reader, ev_panic, ev_updates, aroundEvents>>

SendBatch(events) ==
    /\ ev_panic = ""
    /\ event_count + Len(events) <= MaxEvents
    /\ Store(extend(Self, events))
    /\ ev_sent' = ev_sent \o [i \in 1..Len(events) |-> [event |-> events[i], epoch |-> ev_updates]]
    /\ ev_removed' = Refilled(Len(events))
    /\ ev_call' = EvCall("send_batch", FALSE, << >>, << >>)
    /\ UNCHANGED <<reader, ev_panic, ev_updates, aroundEvents>>

\* What a call of update means for the reader's bookkeeping.
AfterUpdate(r) ==
    [r EXCEPT !.had_update = TRUE,
              !.read_since_update = FALSE,
              !.lapsed = @ \/ (r.had_update /\ ~r.read_since_update)]

Update ==
    /\ ev_panic = ""
    /\ ev_updates < MaxUpdates
    /\ Store(update(Self))
    /\ ev_panic' = IF update_assertion(update(Self)) THEN ""
                   ELSE "assertion failed: events_a.start_event_count + events_a.len() == events_b.start_event_count"
    /\ ev_updates' = ev_updates + 1
    /\ reader' = AfterUpdate(reader)
    /\ ev_call' = EvCall("update", FALSE, << >>, << >>)
    /\ UNCHANGED <<ev_sent, ev_removed, aroundEvents>>

Clear ==
    /\ ev_panic = ""
    /\ Store(clear(Self))
    /\ ev_removed' = "emptied"
    /\ ev_call' = EvCall("clear", FALSE, << >>, << >>)
    /\ UNCHANGED <<reader, ev_panic, ev_updates, ev_sent, aroundEvents>>

Drain ==
    /\ ev_panic = ""
    /\ Store(drain(Self).self)
    /\ ev_removed' = "emptied"
    /\ ev_call' = EvCall("drain", FALSE, drain(Self).out, events_a.events \o events_b.events)
    /\ UNCHANGED <<reader, ev_panic, ev_updates, ev_sent, aroundEvents>>

\* get_reader hands out a reader, which is followed from here on.
GetReader ==
    /\ ev_panic = ""
    /\ reader.made = "default"
    /\ reader' = Reader("get_reader", get_reader(Self), event_count)
    /\ ev_call' = EvCall("get_reader", FALSE, << >>, << >>)
    /\ UNCHANGED <<events_a, events_b, event_count, ev_panic, ev_updates, ev_sent, ev_removed,
                   aroundEvents>>

\* get_reader_current hands out a reader, which is followed from here on.
GetReaderCurrent ==
    /\ ev_panic = ""
    /\ reader.made = "default"
    /\ reader' = Reader("get_reader_current", get_reader_current(Self), event_count)
    /\ ev_call' = EvCall("get_reader_current", FALSE, << >>, << >>)
    /\ UNCHANGED <<events_a, events_b, event_count, ev_panic, ev_updates, ev_sent, ev_removed,
                   aroundEvents>>

\* The reader makes an iterator, calls next k times and drops it; with
\* k = it.unread the iteration is a full one.
Iterate(k) ==
    /\ ev_panic = ""
    /\ LET it == IteratorNew(Self, reader.last_event_count)
           taken == IteratorTake(it, k)
       IN  /\ k <= it.unread
           /\ reader' = [reader EXCEPT
                 !.last_event_count = taken.it.last_event_count,
                 !.yielded = @ \o [i \in 1..Len(taken.out) |-> taken.out[i].event_id],
                 !.fresh = FALSE,
                 !.read_since_update = @ \/ k = it.unread]
           /\ ev_call' = EvCall("iterate", k = it.unread, taken.out, << >>)
    /\ UNCHANGED <<events_a, events_b, event_count, ev_panic, ev_updates, ev_sent, ev_removed,
                   aroundEvents>>

\* The ids get_event is asked for: those of the events that can be sent, and
\* two beyond them.
AskedIds == 0..(MaxEvents + 1)

\* get_event(id): the call record keeps the id asked for and the answer.
GetEvent(id) ==
    /\ ev_panic = ""
    /\ ev_call' = [op |-> "get_event", full |-> FALSE, out |-> get_event(Self, id),
                   stored |-> << >>, id |-> id]
    /\ UNCHANGED <<events_a, events_b, event_count, reader, ev_panic, ev_updates, ev_sent,
                   ev_removed, aroundEvents>>

EventsNext ==
    \/ Send(NextEvents(1)[1])
    \/ \E n \in 0..MaxBatch : SendBatch(NextEvents(n))
    \/ Update
    \/ Clear
    \/ Drain
    \/ GetReader
    \/ GetReaderCurrent
    \/ \E k \in 0..MaxEvents : Iterate(k)

\* The event queue on its own.
EventQueueInit ==
    /\ EventsInit
    /\ BvhIdle
    /\ AabbIdle
    /\ BossBarIdle
    /\ PartIdle

SpecEvents == EventQueueInit /\ [][EventsNext]_allVars

\* The event queue with a caller that looks events up by id and uses no reader.
GetEventNext ==
    \/ Send(NextEvents(1)[1])
    \/ \E n \in 0..MaxBatch : SendBatch(NextEvents(n))
    \/ Update
    \/ Clear
    \/ Drain
    \/ \E id \in AskedIds : GetEvent(id)

SpecGetEvent == EventQueueInit /\ [][GetEventNext]_allVars

(***************************************************************************)
(* Definitions the properties of the event queue are stated with.          *)
(***************************************************************************)
\* What a full iteration of the reader would yield now.
Unread == IteratorNew(Self, reader.last_event_count).chain

\* The ids of a sequence of event instances.
Ids(instances) == [i \in 1..Len(instances) |-> instances[i].event_id]

\* The sequence from, from + 1, .. , to - 1.
CountUp(from, to) == [i \in 1..(to - from) |-> from + (i - 1)]

\* The instances stored in the two buffers, older buffer first.
Stored == events_a.events \o events_b.events

\* The number of updates before the event with this id was sent.
Epoch(id) == ev_sent[id + 1].epoch

(***************************************************************************)
(* C13.  A reader that exists from the start and iterates fully at least   *)
(* once between every two consecutive updates is yielded every event ever  *)
(* sent exactly once and in the order sent, over any interleaving of send, *)
(* send_batch and update: what it has been yielded so far counts up from   *)
(* 0, and what it has not been yielded yet is still stored and unread.     *)
(***************************************************************************)
C13_DiligentReaderLosesNothing ==
    (reader.made = "default" /\ ~reader.lapsed /\ ev_removed = "never") =>
        /\ reader.yielded = CountUp(0, Len(reader.yielded))
        /\ Ids(Unread) = CountUp(Len(reader.yielded), event_count)
        /\ (ev_call.op = "iterate" /\ ev_call.full) => Len(reader.yielded) = event_count

\* A full iteration, after two updates, that yielded events of the older
\* buffer and of the newer one and completed all MaxEvents events.
C13_Witness ==
    /\ reader.made = "default" /\ ~reader.lapsed /\ ev_removed = "never"
    /\ ev_updates >= 2
    /\ ev_call.op = "iterate" /\ ev_call.full
    /\ Len(ev_call.out) >= 2
    /\ Epoch(ev_call.out[1].event_id) < Epoch(ev_call.out[Len(ev_call.out)].event_id)
    /\ Len(reader.yielded) = MaxEvents

(***************************************************************************)
(* C14.  An event is yielded at most once to a reader: right after a full  *)
(* iteration another iteration by the same reader yields nothing, and no   *)
(* id occurs twice in what a reader has been yielded, whatever was sent,   *)
(* updated, cleared or iterated.                                           *)
(***************************************************************************)
C14_AtMostOncePerReader ==
    /\ (ev_call.op = "iterate" /\ ev_call.full) => Unread = << >>
    /\ \A i, j \in 1..Len(reader.yielded) : i < j => reader.yielded[i] # reader.yielded[j]

\* A full iteration that yielded events to a reader that had been yielded
\* others before.
C14_Witness ==
    /\ ev_call.op = "iterate" /\ ev_call.full
    /\ ev_call.out # << >>
    /\ Len(reader.yielded) > Len(ev_call.out)

(***************************************************************************)
(* C15.  An event survives exactly one update: unless the queue is cleared *)
(* or drained, an event sent after k updates is returned by get_event and  *)
(* unread by a reader that has not passed it while at most k + 1 updates   *)
(* have been called, and get_event returns None for it from update k + 2   *)
(* on; no iteration yields an event sent two or more updates ago.          *)
(***************************************************************************)
C15_SurvivesOneUpdate ==
    /\ ev_removed = "never" =>
          \A id \in 0..(Len(ev_sent) - 1) :
              IF ev_updates <= Epoch(id) + 1
              THEN /\ get_event(Self, id) = Some(<<ev_sent[id + 1].event, id>>)
                   /\ reader.last_event_count <= id =>
                          \E i \in 1..Len(Unread) : Unread[i].event_id = id
              ELSE get_event(Self, id) = None
    /\ \A i \in 1..Len(Unread) : ev_updates <= Epoch(Unread[i].event_id) + 1

\* Right after an update that removed an event sent after the first update
\* and kept a later one, with a reader that had read neither.
C15_Witness ==
    /\ ev_removed = "never"
    /\ ev_call.op = "update"
    /\ \E id \in 0..(Len(ev_sent) - 1) : Epoch(id) >= 1 /\ ev_updates = Epoch(id) + 2
    /\ \E id \in 0..(Len(ev_sent) - 1) : ev_updates = Epoch(id) + 1
    /\ reader.last_event_count = 0
    /\ Unread # << >>

(***************************************************************************)
(* C16.  The first iteration of a reader from get_reader yields every      *)
(* event stored in the two buffers; a reader from get_reader_current is    *)
(* never yielded an event sent before it was made, and if it iterates      *)
(* fully at least once between consecutive updates (and the queue is not   *)
(* cleared or drained) it is yielded every event sent afterwards.          *)
(***************************************************************************)
C16_ReaderStart ==
    /\ (reader.made = "get_reader" /\ reader.fresh) => Unread = Stored
    /\ reader.made = "get_reader_current" =>
          /\ \A i \in 1..Len(reader.yielded) : reader.yielded[i] >= reader.born
          /\ \A i \in 1..Len(Unread) : Unread[i].event_id >= reader.born
          /\ (~reader.lapsed /\ ev_removed = "never") =>
                 reader.yielded \o Ids(Unread) = CountUp(reader.born, event_count)

\* A reader from get_reader_current that was yielded an event sent after it
\* was made while an event sent before is still stored.
C16_Witness ==
    /\ reader.made = "get_reader_current"
    /\ reader.born >= 1
    /\ reader.yielded # << >>
    /\ ev_call.op = "iterate" /\ ev_call.full
    /\ get_event(Self, reader.born - 1) # None

(***************************************************************************)
(* C17.  clear and drain remove all events and do not reset the counter:   *)
(* until the next event is sent len() is 0, is_empty() is true, get_event  *)
(* returns None for every id and the reader's iteration yields nothing;    *)
(* the counter stays the number of events ever sent, so every stored event *)
(* carries the id it was sent under; drain yields the stored events,       *)
(* oldest first.                                                           *)
(***************************************************************************)
C17_ClearAndDrain ==
    /\ ev_removed = "emptied" =>
          /\ len(Self) = 0
          /\ is_empty(Self)
          /\ \A id \in 0..MaxEvents : get_event(Self, id) = None
          /\ Unread = << >>
          /\ reader_len(Self, reader.last_event_count) = 0
    /\ event_count = Len(ev_sent)
    /\ \A i \in 1..Len(Stored) : Stored[i].event = ev_sent[Stored[i].event_id + 1].event
    /\ ev_call.op = "drain" =>
          /\ ev_call.out = [i \in 1..Len(ev_call.stored) |-> ev_call.stored[i].event]
          /\ \A i, j \in 1..Len(ev_call.stored) :
                 i < j => ev_call.stored[i].event_id < ev_call.stored[j].event_id

\* A drain that yielded events of both buffers which the reader had not
\* read.
C17_Witness ==
    /\ ev_call.op = "drain"
    /\ Len(ev_call.out) >= 2
    /\ Epoch(ev_call.stored[1].event_id) < Epoch(ev_call.stored[Len(ev_call.stored)].event_id)
    /\ reader.last_event_count = 0
    /\ ev_removed = "emptied"

(***************************************************************************)
(* The boss bar plugin (valence_boss_bar/src/lib.rs).                      *)
(***************************************************************************)
\* The systems BossBarPlugin::build adds to PostUpdate.  client_disconnection
\* is defined in the crate and is not among them.
BossBarPluginSystems ==
    {"update_boss_bar", "update_boss_bar_view_and_layer", "boss_bar_despawn"}

\* The components update_boss_bar is instantiated for.
Parts == {"BossBarTitle", "BossBarHealth", "BossBarStyle", "BossBarFlags"}

\* ToPacketAction::to_packet_action
to_packet_action(part) ==
    IF part = "BossBarTitle" THEN "UpdateTitle"
    ELSE IF part = "BossBarHealth" THEN "UpdateHealth"
    ELSE IF part = "BossBarStyle" THEN "UpdateStyle"
    ELSE "UpdateFlags"

BossBarS2c(bar, act) == [id |-> bar, action |-> act]

\* update_boss_bar::<T>, for all four T: the packets written to the entity
\* layer, one for each changed component of a bar that has an EntityLayerId.
update_boss_bar(bars, changed) ==
    {BossBarS2c(c[1], to_packet_action(c[2])) : c \in {d \in changed : bars[d[1]].layer}}

\* update_boss_bar_view_and_layer: its body is commented out, it touches
\* nothing and writes nothing.
update_boss_bar_view_and_layer(bars) == [bars |-> bars, written |-> {}]

\* boss_bar_despawn: a Remove for every viewer, that is a client, of every
\* boss bar that got the Despawned marker.
boss_bar_despawn(bars, added) ==
    UNION {{[to |-> viewer, packet |-> BossBarS2c(bar, "Remove")] :
                viewer \in bars[bar].viewers.viewers \cap ClientIds} :
           bar \in BarIds \cap added}

\* client_disconnection: every client that got the Despawned marker is
\* removed from the viewers of every boss bar.
client_disconnection(bars, added) ==
    [bar \in BarIds |-> [bars[bar] EXCEPT !.viewers.viewers = @ \ (ClientIds \cap added)]]

\* The variables a step of the boss bars leaves alone.
aroundBossBar == <<vars, aabbVars, evVars, partVars>>

BbCall(name, bars) == [op |-> name, before |-> bars]

\* The packets of the last run have been flushed (FlushPacketsSet runs after
\* the systems) by the time the application acts again.
Flushed ==
    /\ client_packets' = {}
    /\ layer_packets' = {}

\* A system of the application inserts a client into the viewers of a bar,
\* as init_clients and listen_messages of examples/boss_bar.rs do.
InsertViewer(bar, client) ==
    /\ client \notin boss_bars[bar].viewers.viewers
    /\ boss_bars' = [boss_bars EXCEPT ![bar].viewers.viewers = @ \cup {client}]
    /\ bb_call' = BbCall("insert_viewer", << >>)
    /\ Flushed
    /\ UNCHANGED <<bb_despawned, bb_added, bb_changed, aroundBossBar>>

\* A system of the application removes a client from the viewers of a bar.
RemoveViewer(bar, client) ==
    /\ client \in boss_bars[bar].viewers.viewers
    /\ boss_bars' = [boss_bars EXCEPT ![bar].viewers.viewers = @ \ {client}]
    /\ bb_call' = BbCall("remove_viewer", << >>)
    /\ Flushed
    /\ UNCHANGED <<bb_despawned, bb_added, bb_changed, aroundBossBar>>

\* A system of the application changes a component of a bar.
Change(bar, part) ==
    /\ Cardinality(bb_changed) < MaxChanged
    /\ <<bar, part>> \notin bb_changed
    /\ bb_changed' = bb_changed \cup {<<bar, part>>}
    /\ bb_call' = BbCall("change", << >>)
    /\ Flushed
    /\ UNCHANGED <<boss_bars, bb_despawned, bb_added, aroundBossBar>>

\* A client disconnects or a bar is despawned: the entity gets the
\* Despawned marker.
Despawn(entity) ==
    /\ entity \notin bb_despawned
    /\ bb_despawned' = bb_despawned \cup {entity}
    /\ bb_added' = bb_added \cup {entity}
    /\ bb_call' = BbCall("despawn", << >>)
    /\ Flushed
    /\ UNCHANGED <<boss_bars, bb_changed, aroundBossBar>>

\* One run of PostUpdate: the systems BossBarPlugin added run, the change
\* and added flags they look at are then spent.
PostUpdate ==
    /\ layer_packets' = IF "update_boss_bar" \in BossBarPluginSystems
                        THEN update_boss_bar(boss_bars, bb_changed) ELSE {}
    /\ LET view == IF "update_boss_bar_view_and_layer" \in BossBarPluginSystems
                   THEN update_boss_bar_view_and_layer(boss_bars)
                   ELSE [bars |-> boss_bars, written |-> {}]
       IN  /\ client_packets' = view.written \cup
                                (IF "boss_bar_despawn" \in BossBarPluginSystems
                                 THEN boss_bar_despawn(view.bars, bb_added) ELSE {})
           /\ boss_bars' = IF "client_disconnection" \in BossBarPluginSystems
                           THEN client_disconnection(view.bars, bb_added) ELSE view.bars
    /\ bb_added' = {}
    /\ bb_changed' = {}
    /\ bb_call' = BbCall("post_update", boss_bars)
    /\ UNCHANGED <<bb_despawned, aroundBossBar>>

BossBarNext ==
    \/ \E bar \in BarIds, client \in ClientIds : InsertViewer(bar, client)
    \/ \E bar \in BarIds, client \in ClientIds : RemoveViewer(bar, client)
    \/ \E bar \in BarIds, part \in Parts : Change(bar, part)
    \/ \E entity \in BarIds \cup ClientIds : Despawn(entity)
    \/ PostUpdate

\* The boss bars on their own.
BossBarWorldInit ==
    /\ BossBarInit
    /\ BvhIdle
    /\ AabbIdle
    /\ EventsInit
    /\ PartIdle

SpecBossBar == BossBarWorldInit /\ [][BossBarNext]_allVars

(***************************************************************************)
(* C18.  When the systems have run, every viewer added to a boss bar since *)
(* the run before has been sent an Add packet for it, every viewer removed *)
(* since has been sent a Remove packet, and old_viewers is the current     *)
(* viewers.                                                                *)
(***************************************************************************)
C18_ViewerChangesAreSent ==
    bb_call.op = "post_update" =>
        \A bar \in BarIds :
            /\ \A viewer \in bb_call.before[bar].viewers.viewers
                                \ bb_call.before[bar].viewers.old_viewers :
                   [to |-> viewer, packet |-> BossBarS2c(bar, "Add")] \in client_packets
            /\ \A viewer \in bb_call.before[bar].viewers.old_viewers
                                \ bb_call.before[bar].viewers.viewers :
                   [to |-> viewer, packet |-> BossBarS2c(bar, "Remove")] \in client_packets
            /\ boss_bars[bar].viewers.old_viewers = boss_bars[bar].viewers.viewers

(***************************************************************************)
(* C19.  When the systems have run, no boss bar lists a despawned client   *)
(* as a viewer.                                                            *)
(***************************************************************************)
C19_DespawnedClientIsNoViewer ==
    bb_call.op = "post_update" =>
        \A bar \in BarIds : boss_bars[bar].viewers.viewers \cap bb_despawned = {}

(***************************************************************************)
(* Definitions the property of the degenerate split is stated with.        *)
(***************************************************************************)
\* The k-th split of the most recent build left its left half empty.
LeftHalfEmpty(k) == splits[k].point = 0

\* The k-th split of the most recent build left its right half empty.
RightHalfEmpty(k) == splits[k].point = splits[k].end - splits[k].start

(***************************************************************************)
(* C20.  As stated: a split that leaves one half empty is followed by the  *)
(* recursion into the other half, which splits the same value range with   *)
(* the same bounds again, and the build does not end.                      *)
(***************************************************************************)
C20_EmptyHalfRecurses ==
    \A k \in 1..Len(splits) :
        (LeftHalfEmpty(k) \/ RightHalfEmpty(k)) =>
            /\ panic = NoPanic
            /\ k < Len(splits)
            /\ splits[k + 1].bounds = splits[k].bounds
            /\ splits[k + 1].start = splits[k].start
            /\ splits[k + 1].end = splits[k].end

(***************************************************************************)
(* C20, amended.  A split that leaves one half empty is the last thing its *)
(* build does: build_rec panics on the expect of the empty half before it  *)
(* recurses into either half, so no further split follows, the panic names *)
(* the empty half, and the build call ends by unwinding; conversely a      *)
(* build that panicked ended on such a split.                              *)
(***************************************************************************)
C20_EmptyHalfPanics ==
    /\ \A k \in 1..Len(splits) :
           (LeftHalfEmpty(k) \/ RightHalfEmpty(k)) =>
               /\ k = Len(splits)
               /\ phase = "panicked"
               /\ panic = IF LeftHalfEmpty(k) THEN "left half should be nonempty"
                          ELSE "right half should be nonempty"
    /\ (call.op = "build" /\ phase = "panicked") =>
           /\ splits # << >>
           /\ LeftHalfEmpty(Len(splits)) \/ RightHalfEmpty(Len(splits))

\* A build that split once with both halves non-empty and then, inside the
\* recursion, made a split that left a half empty.
C20_Witness ==
    /\ call.op = "build"
    /\ phase = "panicked"
    /\ Len(splits) >= 2
    /\ RightHalfEmpty(Len(splits))
    /\ ~RightHalfEmpty(1) /\ ~LeftHalfEmpty(1)

(***************************************************************************)
(* Definitions the properties of the recursion are stated with.            *)
(***************************************************************************)
\* The value range build_rec hands to the left child of the k-th split.
LeftRange(k) == splits[k].start..(splits[k].start + splits[k].point - 1)

\* The value range build_rec hands to the right child of the k-th split.
RightRange(k) == (splits[k].start + splits[k].point)..(splits[k].end - 1)

\* The value range the k-th split partitions.
SplitRange(k) == splits[k].start..(splits[k].end - 1)

(***************************************************************************)
(* C21.  build terminates by returning: every build call returns, each of  *)
(* its splits hands a non-empty range strictly smaller than its own to     *)
(* each of the two recursive calls, and it makes fewer splits than there   *)
(* are items.                                                              *)
(***************************************************************************)
C21_BuildReturns ==
    call.op = "build" =>
        /\ phase = "ready"
        /\ \A k \in DOMAIN splits :
               /\ LeftRange(k) # {} /\ LeftRange(k) # SplitRange(k)
               /\ RightRange(k) # {} /\ RightRange(k) # SplitRange(k)
        /\ Len(splits) < Max2(Len(items), 1)

\* The coordinate of the value at index i on the axis of the k-th split.
SplitCoord(k, i) == Coord(block_pos(values[i + 1]), splits[k].axis)

(***************************************************************************)
(* C22.  As stated: after the partition of a split the front part of the   *)
(* range, the left child's, holds exactly the items whose coordinate on    *)
(* the split axis is strictly below the midpoint, and the back part, the   *)
(* right child's, exactly those at or above the midpoint.                  *)
(***************************************************************************)
C22_FrontBelowMidpoint ==
    \A k \in DOMAIN splits :
        /\ \A i \in LeftRange(k) : SplitCoord(k, i) < splits[k].mid
        /\ \A i \in RightRange(k) : SplitCoord(k, i) >= splits[k].mid

(***************************************************************************)
(* C22, amended.  After the partition of a split the front part of the     *)
(* range, the left child's, holds exactly the items whose coordinate on    *)
(* the split axis is at or above the midpoint, and the back part, the      *)
(* right child's, exactly those strictly below the midpoint.               *)
(***************************************************************************)
C22_FrontAtOrAboveMidpoint ==
    \A k \in DOMAIN splits :
        /\ LeftRange(k) \cup RightRange(k) = SplitRange(k)
        /\ \A i \in LeftRange(k) : SplitCoord(k, i) >= splits[k].mid
        /\ \A i \in RightRange(k) : SplitCoord(k, i) < splits[k].mid

\* A build that returned after two splits, each with items on both sides,
\* whose partitions reordered the batch.
C22_Witness ==
    /\ Ready
    /\ call.op = "build"
    /\ Len(splits) >= 2
    /\ \A k \in DOMAIN splits : LeftRange(k) # {} /\ RightRange(k) # {}
    /\ values # items

(***************************************************************************)
(* Definitions the properties of the two arenas are stated with.           *)
(***************************************************************************)
\* The arena positions (1-based) of the Internal and of the Leaf nodes.
Internals == {k \in DOMAIN nodes : nodes[k].kind = "Internal"}

Leaves == {k \in DOMAIN nodes : nodes[k].kind = "Leaf"}

\* The references to the node with 0-based index idx: <<position, side>>.
ReferencesTo(idx) ==
    {<<k, "left">> : k \in {i \in Internals : nodes[i].left = idx}}
        \cup {<<k, "right">> : k \in {i \in Internals : nodes[i].right = idx}}

\* The arena positions of the nodes reached from the node at position k.
RECURSIVE Subtree(_)
Subtree(k) ==
    IF nodes[k].kind = "Internal"
    THEN {k} \cup Subtree(nodes[k].left + 1) \cup Subtree(nodes[k].right + 1)
    ELSE {k}

(***************************************************************************)
(* C23.  After a build that returned the node arena is a binary tree in    *)
(* post-order: the child indices of every Internal node are below the      *)
(* node's own index, the left one below the right one; no node refers to   *)
(* the last node, the root, and every other node is the child of exactly   *)
(* one Internal node on exactly one side; every node is reached from the   *)
(* root, and L leaves come with 2L - 1 nodes.                              *)
(***************************************************************************)
C23_PostOrderArena ==
    (Ready /\ nodes # << >>) =>
        /\ \A k \in Internals :
               /\ 0 <= nodes[k].left
               /\ nodes[k].left < nodes[k].right
               /\ nodes[k].right < k - 1
        /\ ReferencesTo(Len(nodes) - 1) = {}
        /\ \A k \in 1..(Len(nodes) - 1) : Cardinality(ReferencesTo(k - 1)) = 1
        /\ Subtree(Len(nodes)) = DOMAIN nodes
        /\ Len(nodes) = 2 * Cardinality(Leaves) - 1

\* A built tree of five nodes whose root has a Leaf for left child, at the
\* start of the arena, and an Internal node for right child.
C23_Witness ==
    /\ Ready
    /\ call.op = "build"
    /\ Len(nodes) = 5
    /\ nodes[5].kind = "Internal"
    /\ nodes[5].left = 0
    /\ nodes[5].right = 3
    /\ nodes[4].kind = "Internal"

\* The Leaf nodes before position k of the arena.
LeavesBefore(k) == {j \in Leaves : j < k}

(***************************************************************************)
(* C24.  After build of a non-empty batch of n items has returned, the     *)
(* value ranges of the Leaf nodes in arena order are non-empty and follow  *)
(* each other without gap or overlap from 0 to n: the first starts at 0,   *)
(* each next one starts where the one before it ends, the last ends at n,  *)
(* and every index of the value arena lies in the range of exactly one     *)
(* Leaf.                                                                   *)
(***************************************************************************)
C24_LeavesTileValues ==
    (Ready /\ items # << >>) =>
        /\ Leaves # {}
        /\ Len(values) = Len(items)
        /\ \A k \in Leaves :
               /\ nodes[k].start < nodes[k].end
               /\ nodes[k].start =
                      IF LeavesBefore(k) = {} THEN 0
                      ELSE nodes[SetMax(LeavesBefore(k))].end
        /\ nodes[SetMax(Leaves)].end = Len(items)
        /\ \A i \in 0..(Len(items) - 1) :
               Cardinality({k \in Leaves : nodes[k].start <= i /\ i < nodes[k].end}) = 1

\* A built tree with three leaves of one item each.
C24_Witness ==
    /\ Ready
    /\ call.op = "build"
    /\ Len(items) = 3
    /\ Cardinality(Leaves) = 3

(***************************************************************************)
(* C25.  build keeps the payloads: after every build call, whether it      *)
(* returned or panicked in a split, and after every later query or         *)
(* shrink_to_fit, the value arena holds each item as many times as the     *)
(* batch supplied it, in whatever order the partitions left.               *)
(***************************************************************************)
C25_ValuesArePermutation ==
    call.op \in {"build", "query", "shrink_to_fit"} =>
        /\ Len(values) = Len(items)
        /\ BagOf(values) = BagOf(items)

\* A build of a batch that holds one item twice, which the partition of the
\* root reordered.
C25_Witness ==
    /\ Ready
    /\ call.op = "build"
    /\ Cardinality(Range(items)) < Len(items)
    /\ splits # << >>
    /\ values # items

(***************************************************************************)
(* C26.  The threshold separates the two kinds of node: the bounds of      *)
(* every Leaf of the arena has a surface_area at or below                  *)
(* MAX_SURFACE_AREA, and the bounds of every Internal node has one         *)
(* strictly above it.                                                      *)
(***************************************************************************)
C26_ThresholdSeparatesKinds ==
    /\ \A k \in Leaves : surface_area(nodes[k].bounds) <= MAX_SURFACE_AREA
    /\ \A k \in Internals : surface_area(nodes[k].bounds) > MAX_SURFACE_AREA

\* A built tree with an Internal node and a Leaf of several positions whose
\* bounds has exactly the threshold for surface_area.
C26_Witness ==
    /\ Ready
    /\ call.op = "build"
    /\ Internals # {}
    /\ \E k \in Leaves :
           /\ surface_area(nodes[k].bounds) = MAX_SURFACE_AREA
           /\ nodes[k].end - nodes[k].start >= 2

\* The side length of a box on an axis.
SideLength(b, axis) ==
    IF axis = "x" THEN length_x(b) ELSE IF axis = "z" THEN length_z(b) ELSE length_y(b)

MaxNear == 2

\* The coordinates middle is applied to: those near the ends of the i32
\* range and near zero, and those around 2^30, where the sum of two of them
\* first leaves the i32 range.
MiddleEnds ==
    {I32Min + d : d \in 0..MaxNear} \cup ((-MaxNear)..MaxNear) \cup {I32Max - d : d \in 0..MaxNear}
        \cup {(-Limb) - 1, -Limb, Limb - 1, Limb}

MiddleBoxes == BoxesOver(MiddleEnds, {I32Min, I32Max}, {0})

MiddleInit ==
    /\ aabb_a \in MiddleBoxes
    /\ aabb_b = aabb_a
    /\ aabb_c = aabb_a
    /\ overflow_checks \in BOOLEAN
    /\ aabb_call = NoAabbCall
    /\ BvhIdle
    /\ EventsInit
    /\ BossBarIdle
    /\ PartIdle

\* middle(bounds.min.<axis>, bounds.max.<axis>)
Middle(axis) ==
    /\ \E lo \in {Coord(aabb_a.min, axis)}, hi \in {Coord(aabb_a.max, axis)} :
          aabb_call' = [op       |-> "middle",
                        axis     |-> axis,
                        min      |-> lo,
                        max      |-> hi,
                        overflow |-> i64_add_overflows(as_i64(lo), as_i64(hi)),
                        lossless |-> fits_i32(i64_div2(i64_add(as_i64(lo), as_i64(hi)))),
                        mid      |-> middle(lo, hi)]
    /\ UNCHANGED aroundAabb

MiddleNext == \E axis \in {"x", "y", "z"} : Middle(axis)

SpecMiddle == MiddleInit /\ [][MiddleNext]_allVars

\* The average of lo <= hi rounded toward zero, from differences and sums
\* that stay in the 32-bit range: the sum of the two when their signs
\* differ, half their distance from the end nearer to zero otherwise.
ExactAverage(lo, hi) ==
    IF lo < 0 /\ hi >= 0 THEN TruncDiv(lo + hi, 2)
    ELSE IF lo >= 0 THEN lo + ((hi - lo) \div 2)
    ELSE hi - ((hi - lo) \div 2)

(***************************************************************************)
(* C28.  For i32 values min <= max, middle(min, max) is the average of the *)
(* two rounded toward zero and lies between them; the i64 sum does not     *)
(* overflow and the cast of the quotient back to i32 loses nothing.        *)
(***************************************************************************)
C28_MiddleIsExactAverage ==
    aabb_call.op = "middle" =>
        /\ ~aabb_call.overflow
        /\ aabb_call.lossless
        /\ aabb_call.mid = ExactAverage(aabb_call.min, aabb_call.max)
        /\ ~add_overflows(aabb_call.min, aabb_call.max) =>
               aabb_call.mid = TruncDiv(aabb_call.min + aabb_call.max, 2)
        /\ aabb_call.min <= aabb_call.mid
        /\ aabb_call.mid <= aabb_call.max

\* middle of two values whose sum is odd and beyond i32::MAX.
C28_Witness ==
    /\ aabb_call.op = "middle"
    /\ aabb_call.min = I32Max - 1
    /\ aabb_call.max = I32Max
    /\ aabb_call.mid = I32Max - 1

(***************************************************************************)
(* partition applied on its own, to slices over the elements of the test   *)
(* partition_middle with the closures of the test and of build_rec.        *)
(***************************************************************************)
\* The longest slice partition is applied to.
MaxSlice == 4

\* let mut arr = [2, 3, 4, 5]
PartitionMiddleArr == << 2, 3, 4, 5 >>

\* let mid = middle(arr[0], arr[arr.len() - 1])
PartitionMiddleMid == middle(PartitionMiddleArr[1], PartitionMiddleArr[Len(PartitionMiddleArr)])

PartElems == Range(PartitionMiddleArr)

\* The midpoints of the closures: from below every element to above every one.
PartMids == (SetMin(PartElems) - 1)..(SetMax(PartElems) + 1)

\* The closure as the function partition calls.
ClosureFn(c) ==
    [x \in PartElems |-> IF c.rel = "mid >= x" THEN c.mid >= x ELSE x >= c.mid]

PartitionInit ==
    /\ arr \in UNION {SeqsOfLen(PartElems, n) : n \in 0..MaxSlice}
    /\ arr_pred \in {Closure(rel, mid) : rel \in {"mid >= x", "x >= mid"}, mid \in PartMids}
    /\ part_call = NoPartCall
    /\ BvhIdle
    /\ AabbIdle
    /\ EventsInit
    /\ BossBarIdle

\* let point = partition(&mut arr, closure)
Partition ==
    /\ \E out \in {partition(arr, ClosureFn(arr_pred))} :
          /\ arr' = out.s
          /\ part_call' = [op     |-> "partition",
                           before |-> arr,
                           point  |-> out.point,
                           seen   |-> out.seen]
    /\ UNCHANGED <<arr_pred, vars, aabbVars, evVars, bbVars>>

PartitionNext == Partition

SpecPartition == PartitionInit /\ [][PartitionNext]_allVars

(***************************************************************************)
(* C29.  partition returns the number k of elements that satisfy pred and  *)
(* leaves the slice with the same elements as before, the first k of them  *)
(* satisfying pred and the others not; it calls pred on every position of  *)
(* the slice exactly once.  For [2, 3, 4, 5] and the closure mid >= x with *)
(* mid = 3 it returns 2 and leaves [2, 3] in front of [4, 5].              *)
(***************************************************************************)
C29_PartitionContract ==
    part_call.op = "partition" =>
        LET pred == ClosureFn(arr_pred)
            before == part_call.before
            k == part_call.point
        IN  /\ k = Cardinality({i \in DOMAIN before : pred[before[i]]})
            /\ Len(arr) = Len(before)
            /\ BagOf(arr) = BagOf(before)
            /\ \A i \in 1..k : pred[arr[i]]
            /\ \A i \in (k + 1)..Len(arr) : ~pred[arr[i]]
            /\ Len(part_call.seen) = Len(before)
            /\ Range(part_call.seen) = 0..(Len(before) - 1)
            /\ (before = PartitionMiddleArr /\ arr_pred = Closure("mid >= x", PartitionMiddleMid)) =>
                   /\ k = 2
                   /\ Slice(arr, 0, k) = << 2, 3 >>
                   /\ Slice(arr, k, Len(arr)) = << 4, 5 >>

\* partition of a slice of four elements that swapped two pairs of them.
C29_Witness ==
    /\ part_call.op = "partition"
    /\ Len(arr) = 4
    /\ part_call.point = 2
    /\ \A i \in 1..4 : arr[i] # part_call.before[i]

(***************************************************************************)
(* Definitions the property of the traversal is stated with.               *)
(***************************************************************************)
\* Two boxes have a position in common: on every axis the larger of the two
\* lower ends is at or below the smaller of the two upper ends.
BoxesMeet(a, b) ==
    \A axis \in {"x", "y", "z"} :
        Max2(Coord(a.min, axis), Coord(b.min, axis)) <= Min2(Coord(a.max, axis), Coord(b.max, axis))

\* The Internal nodes of the arena that have node n for a child.
ParentsOf(n) ==
    {p \in Range(nodes) :
        p.kind = "Internal" /\ (nodes[p.left + 1] = n \/ nodes[p.right + 1] = n)}

\* The Leaf nodes of the arena whose range holds position i of the value arena.
LeavesOf(i) == {n \in Range(nodes) : n.kind = "Leaf" /\ n.start <= i /\ i < n.end}

\* The values at the positions listed in idxs that meet the view, in order.
RECURSIVE Meeting(_, _)
Meeting(idxs, view) ==
    IF idxs = << >> THEN << >>
    ELSE (IF BoxesMeet(view, point(block_pos(values[Head(idxs) + 1])))
          THEN << values[Head(idxs) + 1] >> ELSE << >>)
         \o Meeting(Tail(idxs), view)

(***************************************************************************)
(* C30.  A query prunes by bounds: query_rec is called on a node other     *)
(* than the root only from a visited Internal node whose bounds meets the  *)
(* view; a position of the value arena is tested only inside a visited     *)
(* Leaf whose bounds meets the view; and the callback receives exactly the *)
(* tested items whose own point box meets the view, each tested once.      *)
(***************************************************************************)
C30_QueryPrunesByBounds ==
    (Ready /\ call.op = "query" /\ nodes # << >>) =>
        /\ call.visited[1] = nodes[Len(nodes)]
        /\ \A k \in 2..Len(call.visited) :
               \E p \in ParentsOf(call.visited[k]) :
                   /\ p \in Range(SubSeq(call.visited, 1, k - 1))
                   /\ BoxesMeet(p.bounds, CallView)
        /\ \A i \in Range(call.examined) :
               \E n \in LeavesOf(i) :
                   /\ n \in Range(call.visited)
                   /\ BoxesMeet(n.bounds, CallView)
        /\ Cardinality(Range(call.examined)) = Len(call.examined)
        /\ call.reported = Meeting(call.examined, CallView)

\* A query that went past the root, scanned a Leaf of which it reported one
\* item and not another, and left another Leaf unscanned.
C30_Witness ==
    /\ Ready
    /\ call.op = "query"
    /\ Len(call.visited) >= 3
    /\ call.reported # << >>
    /\ Len(call.reported) < Len(call.examined)
    /\ Len(call.examined) < Len(values)

(***************************************************************************)
(* C31.  The two buffers hold consecutive stretches of the events sent:    *)
(* in every state of the queue the older buffer ends where the newer one   *)
(* starts, events_a.start_event_count + events_a.len() =                   *)
(* events_b.start_event_count, and the newer one ends at the count of      *)
(* events sent, events_b.start_event_count + events_b.len() = event_count; *)
(* the debug assertion of update has never failed.                         *)
(***************************************************************************)
C31_BuffersAreConsecutive ==
    /\ events_a.start_event_count + Len(events_a.events) = events_b.start_event_count
    /\ events_b.start_event_count + Len(events_b.events) = event_count
    /\ update_assertion(Self)
    /\ ev_panic = ""

\* A queue that was emptied by clear or drain and updated, and now holds
\* events in both buffers, the older of which starts after the first event.
C31_Witness ==
    /\ ev_removed = "refilled"
    /\ ev_updates > 0
    /\ events_a.events # << >>
    /\ events_b.events # << >>
    /\ events_a.start_event_count > 0

\* The instances of a buffer sit at the positions their ids name.
IdsFollowStart(buffer) ==
    \A k \in DOMAIN buffer.events :
        buffer.events[k].event_id = buffer.start_event_count + (k - 1)

(***************************************************************************)
(* C32.  Ids follow the order of sending: every event sent so far has      *)
(* taken one id, so the next id is the number of events sent; the stored   *)
(* instance with id n holds the n-th event sent, counted from 0, whatever  *)
(* updates, clears and drains came in between; the ids stored are below    *)
(* the next id and increase along the two buffers; and the instance with   *)
(* id i sits at index i - start_event_count of its buffer.                 *)
(***************************************************************************)
C32_IdsFollowSendOrder ==
    /\ event_count = Len(ev_sent)
    /\ \A k \in DOMAIN Stored :
           /\ Stored[k].event_id < event_count
           /\ Stored[k].event = ev_sent[Stored[k].event_id + 1].event
           /\ Stored[k].event = NthEvent(Stored[k].event_id)
           /\ k > 1 => Stored[k - 1].event_id < Stored[k].event_id
    /\ IdsFollowStart(events_a)
    /\ IdsFollowStart(events_b)

\* A queue whose first event is no longer stored and which holds a later
\* event in each buffer, the newest of them sent in a batch.
C32_Witness ==
    /\ ev_call.op = "send_batch"
    /\ events_a.start_event_count > 0
    /\ events_a.events # << >>
    /\ events_b.events # << >>

\* The positions of Stored whose instance has this id.
HoldersOf(id) == {k \in DOMAIN Stored : Stored[k].event_id = id}

(***************************************************************************)
(* C33.  get_event(id) returns the stored instance with that id, its event *)
(* and its id, when one of the two buffers holds such an instance, and     *)
(* None when none does: for the ids of events that an update dropped or    *)
(* that were cleared or drained, and for ids not yet given out.  This is   *)
(* so for the call just made and for every id that could be asked for in   *)
(* the state reached.                                                      *)
(***************************************************************************)
C33_GetEventFindsStored ==
    /\ ev_call.op = "get_event" => ev_call.out = get_event(Self, ev_call.id)
    /\ \A id \in AskedIds :
           IF HoldersOf(id) # {}
           THEN /\ Cardinality(HoldersOf(id)) = 1
                /\ \A k \in HoldersOf(id) : get_event(Self, id) = Some(<<Stored[k].event, id>>)
                /\ get_event(Self, id)[1][1] = NthEvent(id)
           ELSE get_event(Self, id) = None

\* get_event has just found the oldest event stored, in the older buffer,
\* of a queue that no longer stores the first event sent: it finds nothing
\* for id 0, finds the newest event in the newer buffer, and finds nothing
\* for the next id to be given out.
C33_Witness ==
    /\ ev_call.op = "get_event"
    /\ ev_call.id = events_a.start_event_count
    /\ ev_call.id > 0
    /\ events_a.events # << >>
    /\ events_b.events # << >>
    /\ ev_call.out = Some(<<events_a.events[1].event, ev_call.id>>)
    /\ get_event(Self, 0) = None
    /\ get_event(Self, event_count - 1) # None
    /\ get_event(Self, event_count) = None

====
